---- MODULE Spec2Model ----
(***************************************************************************)
(* Model of python/mlx/nn/layers/recurrent.py: the RNN, GRU, LSTM,         *)
(* ConvLSTMCell and ConvLSTM layers.  Arrays are nested sequences of       *)
(* fixed-point integers (a real v is the integer v * Scale); an absent     *)
(* optional array (Python's None) is the empty sequence.                   *)
(***************************************************************************)
EXTENDS Integers, Sequences, FiniteSets, TLC

\* ------------------------------------------------------------------ bounds
Scale == 4          \* fixed-point resolution: the real 1.0 is the integer Scale
MaxLen == 2         \* longest input sequence (L)
MaxInput == 1       \* largest input_size (D)
MaxHidden == 2      \* largest hidden_size (H)
MaxSeed == 1        \* weight initialisations tried: seeds 0..MaxSeed
MaxKernel == 3      \* largest kernel_size besides the default
MaxBatch == 2       \* largest batch (N) of a ConvLSTM input
MaxSpatial == 2     \* largest height and width of a ConvLSTM input

\* the defaults of ConvLSTMCell.__init__
DefaultKernelSize == 5
DefaultStride == 1
DefaultPadding == 2
DefaultDilation == 1

None == <<>>
One == Scale
\* the entries an input sequence may hold: -1 and 1/2
XVals == {-Scale, Scale \div 2}

\* ------------------------------------------------- the array engine (mlx.core)
Min2(a, b) == IF a < b THEN a ELSE b
Max2(a, b) == IF a > b THEN a ELSE b

\* elementwise product of two fixed-point scalars
Mul(a, b) == (a * b) \div Scale

\* mx.sigmoid on a scalar: monotone, 0 below -2, 1 above 2, 1/2 at 0
Sigmoid(v) == Max2(0, Min2(Scale, (v + 2 * Scale) \div 4))

\* mx.tanh on a scalar: odd, monotone, saturating at -1 and 1
Tanh(v) == Max2(-Scale, Min2(Scale, v))

Relu(v) == Max2(0, v)

VAdd(a, b) == [k \in 1..Len(a) |-> a[k] + b[k]]
VMul(a, b) == [k \in 1..Len(a) |-> Mul(a[k], b[k])]
\* (s - v) for a scalar s broadcast against the vector v
VRSub(s, v) == [k \in 1..Len(v) |-> s - v[k]]
VSigmoid(v) == [k \in 1..Len(v) |-> Sigmoid(v[k])]
VTanh(v) == [k \in 1..Len(v) |-> Tanh(v[k])]
VZeros(n) == [k \in 1..n |-> 0]

RECURSIVE Dot(_, _, _, _)
\* sum over i = 1..m of v[i] * W[i][j], in units of 1/Scale^2
Dot(v, W, j, m) == IF m = 0 THEN 0 ELSE v[m] * W[m][j] + Dot(v, W, j, m - 1)

\* v @ W for a vector v and a matrix W (a sequence of rows)
MatVec(v, W) == [j \in 1..Len(W[1]) |-> Dot(v, W, j, Len(v)) \div Scale]

\* mx.addmm(c, a, b) = c + a @ b, row by row over the sequence axis
AddMM(c, a, W) == [t \in 1..Len(a) |-> VAdd(c, MatVec(a[t], W))]
MatMul(a, W) == [t \in 1..Len(a) |-> MatVec(a[t], W)]

\* mx.split(v, k, axis=-1): chunk number c (from 1) of k equal chunks
Chunk(v, k, c) == SubSeq(v, (c - 1) * (Len(v) \div k) + 1, c * (Len(v) \div k))

\* v[..., : -h] and v[..., -h :]
AllButLast(v, h) == SubSeq(v, 1, Len(v) - h)
Last(v, h) == SubSeq(v, Len(v) - h + 1, Len(v))

\* mx.random.uniform(low=-scale, high=scale, shape): one entry of the sample
\* drawn under a seed; salt tells the arrays of one layer apart
UniformAt(seed, salt, i, j) == ((seed * 5 + salt * 3 + i * 7 + j * 2) % (2 * Scale + 1)) - Scale
Uniform2(seed, salt, rows, cols) == [i \in 1..rows |-> [j \in 1..cols |-> UniformAt(seed, salt, i, j)]]
Uniform1(seed, salt, n) == [j \in 1..n |-> UniformAt(seed, salt, 0, j)]

\* ------------------------------------------------------------- Python values
\* values a caller may pass as `nonlinearity`: None, two callables, the int 0
\* and a str (neither callable; 0 is falsy, a non-empty str is truthy)
Nonlinearities == {"None", "tanh", "relu", "0", "'relu'"}
Truthy(v) == v \notin {"None", "0"}
Callable(v) == v \in {"tanh", "relu"}
Apply(f, v) == IF f = "relu" THEN [k \in 1..Len(v) |-> Relu(v[k])] ELSE VTanh(v)

NoSelf == [kind |-> "none"]

VARIABLES
    pc,          \* "init", "ready", "<layer>_loop", "returned", "call_raised", "raised"
    ctor,        \* the arguments of the constructor call
    self,        \* the layer instance
    args,        \* the arguments of the forward call in progress (or last made)
    x,           \* local x of __call__ (the input projection, once computed)
    hidden,      \* local hidden of __call__ (h_t in ConvLSTM)
    cell,        \* local cell of __call__ (c_t in ConvLSTM)
    idx,         \* iterations of the loop completed (idx; i in ConvLSTM)
    all_hidden,  \* local all_hidden (hidden_states in ConvLSTM)
    all_cell,    \* local all_cell
    locals,      \* the gate values of the last iteration
    result,      \* what the last call returned
    err          \* the last exception the layer raised, or "none"

vars == <<pc, ctor, self, args, x, hidden, cell, idx, all_hidden, all_cell, locals, result, err>>

NoArgs == [x |-> None, hidden |-> None, cell |-> None]
NoLocals == [step |-> 0]

Init ==
    /\ pc = "init"
    /\ ctor = NoSelf
    /\ self = NoSelf
    /\ args = NoArgs
    /\ x = None
    /\ hidden = None
    /\ cell = None
    /\ idx = 0
    /\ all_hidden = <<>>
    /\ all_cell = <<>>
    /\ locals = NoLocals
    /\ result = None
    /\ err = "none"

\* The instance is not inside a call.  A call made after a call returned starts
\* from the state a call made right after construction (or after a failed
\* call) starts from, so calls are taken from those two places only.
Idle == pc \in {"ready", "call_raised"}

\* the input sequences (L, D) a caller may pass to a layer of input size d
Inputs(d) == UNION {[1..L -> [1..d -> XVals]] : L \in 1..MaxLen}

\* the initial states a caller may pass: omitted, all zero, or all one half
States(h) == {None, VZeros(h), [k \in 1..h |-> Scale \div 2]}

\* ---------------------------------------------------------------------- RNN
RNN_new(input_size, hidden_size, bias, nonlinearity, seed) ==
    LET nl == IF Truthy(nonlinearity) THEN nonlinearity ELSE "tanh"
    IN  [kind |-> "RNN",
         raised |-> ~Callable(nl),
         nonlinearity |-> nl,
         hidden_size |-> hidden_size,
         Wxh |-> Uniform2(seed, 1, input_size, hidden_size),
         Whh |-> Uniform2(seed, 2, hidden_size, hidden_size),
         bias |-> IF bias THEN Uniform1(seed, 3, hidden_size) ELSE None]

RNN_init ==
    /\ pc = "init"
    /\ \E input_size \in 1..MaxInput, hidden_size \in 1..MaxHidden,
          bias \in BOOLEAN, nonlinearity \in Nonlinearities, seed \in 0..MaxSeed :
          LET new == RNN_new(input_size, hidden_size, bias, nonlinearity, seed)
          IN  /\ ctor' = [kind |-> "RNN", input_size |-> input_size, bias |-> bias,
                          nonlinearity |-> nonlinearity]
              /\ IF new.raised
                    THEN pc' = "raised" /\ err' = "ValueError" /\ self' = NoSelf
                    ELSE pc' = "ready" /\ err' = "none" /\ self' = new
    /\ UNCHANGED <<args, x, hidden, cell, idx, all_hidden, all_cell, locals, result>>

\* lines 77-80: the projection of the whole input sequence
RNN_project(slf, xin) ==
    IF slf.bias # None THEN AddMM(slf.bias, xin, slf.Wxh) ELSE MatMul(xin, slf.Wxh)

\* RNN_body with the hidden state added as it is, not projected by Whh
RNN_body_NoWhh(slf, x_t, hid) ==
    Apply(slf.nonlinearity, IF hid # None THEN VAdd(x_t, hid) ELSE x_t)

\* lines 84-88: one iteration of the loop; the new hidden state
RNN_body(slf, x_t, hid) ==
    LET pre == IF hid # None THEN VAdd(x_t, MatVec(hid, slf.Whh)) ELSE x_t
    IN  Apply(slf.nonlinearity, pre)

RNN_call ==
    /\ Idle /\ self.kind = "RNN"
    /\ \E xin \in Inputs(Len(self.Wxh)), h0 \in States(self.hidden_size) :
          /\ args' = [x |-> xin, hidden |-> h0, cell |-> None]
          /\ x' = RNN_project(self, xin)
          /\ hidden' = h0
    /\ all_hidden' = <<>>
    /\ idx' = 0
    /\ pc' = "RNN_loop"
    /\ result' = None
    /\ locals' = NoLocals
    /\ UNCHANGED <<ctor, self, cell, all_cell, err>>

RNN_step ==
    /\ pc = "RNN_loop" /\ idx < Len(x)
    /\ hidden' = RNN_body(self, x[idx + 1], hidden)
    /\ all_hidden' = Append(all_hidden, hidden')
    /\ idx' = idx + 1
    /\ UNCHANGED <<pc, ctor, self, args, x, cell, all_cell, locals, result, err>>

RNN_return ==
    /\ pc = "RNN_loop" /\ idx = Len(x)
    /\ result' = all_hidden
    /\ pc' = "returned"
    /\ UNCHANGED <<ctor, self, args, x, hidden, cell, idx, all_hidden, all_cell, locals, err>>

\* ---------------------------------------------------------------------- GRU
GRU_new(input_size, hidden_size, bias, seed) ==
    [kind |-> "GRU",
     hidden_size |-> hidden_size,
     Wx |-> Uniform2(seed, 1, input_size, 3 * hidden_size),
     Wh |-> Uniform2(seed, 2, hidden_size, 3 * hidden_size),
     b |-> IF bias THEN Uniform1(seed, 3, 3 * hidden_size) ELSE None,
     bhn |-> IF bias THEN Uniform1(seed, 4, hidden_size) ELSE None]

GRU_init ==
    /\ pc = "init"
    /\ \E input_size \in 1..MaxInput, hidden_size \in 1..MaxHidden,
          bias \in BOOLEAN, seed \in 0..MaxSeed :
          /\ ctor' = [kind |-> "GRU", input_size |-> input_size, bias |-> bias]
          /\ self' = GRU_new(input_size, hidden_size, bias, seed)
    /\ pc' = "ready"
    /\ UNCHANGED <<args, x, hidden, cell, idx, all_hidden, all_cell, locals, result, err>>

\* lines 158-161: the projection of the whole input sequence
GRU_project(slf, xin) ==
    IF slf.b # None THEN AddMM(slf.b, xin, slf.Wx) ELSE MatMul(xin, slf.Wx)

\* lines 190-192: the new hidden state from the update gate and the candidate
GRU_update(z, n) ==
    LET hidden1 == VMul(VRSub(One, z), n)
    IN  IF hidden1 # None THEN VAdd(hidden1, VMul(z, hidden1)) ELSE hidden1

\* lines 169-192: one iteration of the loop on the projected step x_t; the
\* values of its local variables when it ends
GRU_body(slf, x_t, hid) ==
    LET H == slf.hidden_size
        x_rz == AllButLast(x_t, H)
        x_n == Last(x_t, H)
        h_proj == IF hid # None THEN MatVec(hid, slf.Wh) ELSE None
        h_proj_rz == IF hid # None THEN AllButLast(h_proj, H) ELSE None
        h_proj_n == IF hid = None THEN None
                    ELSE IF slf.bhn # None THEN VAdd(Last(h_proj, H), slf.bhn)
                    ELSE Last(h_proj, H)
        rz == VSigmoid(IF hid # None THEN VAdd(x_rz, h_proj_rz) ELSE x_rz)
        r == Chunk(rz, 2, 1)
        z == Chunk(rz, 2, 2)
        n == VTanh(IF hid # None THEN VAdd(x_n, VMul(r, h_proj_n)) ELSE x_n)
    IN  [step |-> 1, h_prev |-> hid, x_rz |-> x_rz, x_n |-> x_n, r |-> r, z |-> z,
         n |-> n, hidden |-> GRU_update(z, n)]

GRU_call ==
    /\ Idle /\ self.kind = "GRU"
    /\ \E xin \in Inputs(Len(self.Wx)), h0 \in States(self.hidden_size) :
          /\ args' = [x |-> xin, hidden |-> h0, cell |-> None]
          /\ x' = GRU_project(self, xin)
          /\ hidden' = h0
    /\ all_hidden' = <<>>
    /\ idx' = 0
    /\ pc' = "GRU_loop"
    /\ result' = None
    /\ locals' = NoLocals
    /\ UNCHANGED <<ctor, self, cell, all_cell, err>>

GRU_step ==
    /\ pc = "GRU_loop" /\ idx < Len(x)
    /\ locals' = GRU_body(self, x[idx + 1], hidden)
    /\ hidden' = locals'.hidden
    /\ all_hidden' = Append(all_hidden, hidden')
    /\ idx' = idx + 1
    /\ UNCHANGED <<pc, ctor, self, args, x, cell, all_cell, result, err>>

GRU_return ==
    /\ pc = "GRU_loop" /\ idx = Len(x)
    /\ result' = all_hidden
    /\ pc' = "returned"
    /\ UNCHANGED <<ctor, self, args, x, hidden, cell, idx, all_hidden, all_cell, locals, err>>

\* --------------------------------------------------------------------- LSTM
LSTM_new(input_size, hidden_size, bias, seed) ==
    [kind |-> "LSTM",
     hidden_size |-> hidden_size,
     Wx |-> Uniform2(seed, 1, input_size, 4 * hidden_size),
     Wh |-> Uniform2(seed, 2, hidden_size, 4 * hidden_size),
     bias |-> IF bias THEN Uniform1(seed, 3, 4 * hidden_size) ELSE None]

LSTM_init ==
    /\ pc = "init"
    /\ \E input_size \in 1..MaxInput, hidden_size \in 1..MaxHidden,
          bias \in BOOLEAN, seed \in 0..MaxSeed :
          /\ ctor' = [kind |-> "LSTM", input_size |-> input_size, bias |-> bias]
          /\ self' = LSTM_new(input_size, hidden_size, bias, seed)
    /\ pc' = "ready"
    /\ UNCHANGED <<args, x, hidden, cell, idx, all_hidden, all_cell, locals, result, err>>

\* lines 260-263: the projection of the whole input sequence
LSTM_project(slf, xin) ==
    IF slf.bias # None THEN AddMM(slf.bias, xin, slf.Wx) ELSE MatMul(xin, slf.Wx)

\* LSTM_cell with the input and forget gates taken in the wrong order
LSTM_cell_Swapped(i, f, g, c) ==
    IF c # None THEN VAdd(VMul(i, c), VMul(f, g)) ELSE VMul(f, g)

\* lines 279-282: the new cell state
LSTM_cell(i, f, g, c) ==
    IF c # None THEN VAdd(VMul(f, c), VMul(i, g)) ELSE VMul(i, g)

\* lines 269-283: one iteration of the loop on the projected step x_t; the
\* values of its local variables when it ends
LSTM_body(slf, x_t, hid, c) ==
    LET ifgo == IF hid # None THEN VAdd(x_t, MatVec(hid, slf.Wh)) ELSE x_t
        i == VSigmoid(Chunk(ifgo, 4, 1))
        f == VSigmoid(Chunk(ifgo, 4, 2))
        g == VTanh(Chunk(ifgo, 4, 3))
        o == VSigmoid(Chunk(ifgo, 4, 4))
        c1 == LSTM_cell(i, f, g, c)
    IN  [step |-> 1, h_prev |-> hid, c_prev |-> c, ifgo |-> ifgo, i |-> i, f |-> f,
         g |-> g, o |-> o, cell |-> c1, hidden |-> VMul(o, VTanh(c1))]

LSTM_call ==
    /\ Idle /\ self.kind = "LSTM"
    /\ \E xin \in Inputs(Len(self.Wx)), h0 \in States(self.hidden_size),
          c0 \in States(self.hidden_size) :
          /\ args' = [x |-> xin, hidden |-> h0, cell |-> c0]
          /\ x' = LSTM_project(self, xin)
          /\ hidden' = h0
          /\ cell' = c0
    /\ all_hidden' = <<>>
    /\ all_cell' = <<>>
    /\ idx' = 0
    /\ pc' = "LSTM_loop"
    /\ result' = None
    /\ locals' = NoLocals
    /\ UNCHANGED <<ctor, self, err>>

LSTM_step ==
    /\ pc = "LSTM_loop" /\ idx < Len(x)
    /\ locals' = LSTM_body(self, x[idx + 1], hidden, cell)
    /\ hidden' = locals'.hidden
    /\ cell' = locals'.cell
    /\ all_cell' = Append(all_cell, cell')
    /\ all_hidden' = Append(all_hidden, hidden')
    /\ idx' = idx + 1
    /\ UNCHANGED <<pc, ctor, self, args, x, result, err>>

LSTM_return ==
    /\ pc = "LSTM_loop" /\ idx = Len(x)
    /\ result' = <<all_hidden, all_cell>>
    /\ pc' = "returned"
    /\ UNCHANGED <<ctor, self, args, x, hidden, cell, idx, all_hidden, all_cell, locals, err>>

\* ------------------------------------------------- 4-d arrays (N, H, W, C)
\* a sequence given as a function on 1..n, as the tuple of its values
Arr(s) == s \o <<>>

\* the 4-d array of shape d whose entry (n, i, j, k) is f(n, i, j, k)
T4(f(_, _, _, _), d) ==
    Arr([n \in 1..d[1] |-> Arr([i \in 1..d[2] |-> Arr([j \in 1..d[3] |->
        Arr([k \in 1..d[4] |-> f(n, i, j, k)])])])])

\* a.shape
Dims(a) == <<Len(a), Len(a[1]), Len(a[1][1]), Len(a[1][1][1])>>

\* NumPy broadcasting of two shapes: per axis equal, or one of them 1
Broadcastable(a, b) ==
    \A k \in 1..4 : Dims(a)[k] = Dims(b)[k] \/ Dims(a)[k] = 1 \/ Dims(b)[k] = 1
BDims(a, b) == [k \in 1..4 |-> Max2(Dims(a)[k], Dims(b)[k])]

\* the entry of a at (n, i, j, c) once a is broadcast to a larger shape
At(a, n, i, j, c) ==
    LET d == Dims(a)
    IN  a[IF d[1] = 1 THEN 1 ELSE n][IF d[2] = 1 THEN 1 ELSE i][IF d[3] = 1 THEN 1 ELSE j][IF d[4] = 1 THEN 1 ELSE c]

\* a * b and a + b, elementwise with broadcasting
TMul(a, b) == T4(LAMBDA n, i, j, k : Mul(At(a, n, i, j, k), At(b, n, i, j, k)), BDims(a, b))
TAdd(a, b) == T4(LAMBDA n, i, j, k : At(a, n, i, j, k) + At(b, n, i, j, k), BDims(a, b))

TSigmoid(a) == T4(LAMBDA n, i, j, k : Sigmoid(a[n][i][j][k]), Dims(a))
TTanh(a) == T4(LAMBDA n, i, j, k : Tanh(a[n][i][j][k]), Dims(a))

\* mx.zeros([n, h, w, c])
TZeros(n, h, w, c) == T4(LAMBDA nn, i, j, k : 0, <<n, h, w, c>>)

\* mx.concatenate([a, b], axis=-1)
TConcat(a, b) ==
    T4(LAMBDA n, i, j, k : IF k <= Dims(a)[4] THEN a[n][i][j][k] ELSE b[n][i][j][k - Dims(a)[4]],
       <<Dims(a)[1], Dims(a)[2], Dims(a)[3], Dims(a)[4] + Dims(b)[4]>>)

\* mx.split(a, q, axis=-1): chunk number c (from 1) of q equal chunks
TChunk(a, q, c) ==
    T4(LAMBDA n, i, j, k : a[n][i][j][(c - 1) * (Dims(a)[4] \div q) + k],
       <<Dims(a)[1], Dims(a)[2], Dims(a)[3], Dims(a)[4] \div q>>)

\* ------------------------------------------------------------- nn.Conv2d
Conv2d_weight(seed, oc, ki, kj, ic) ==
    ((seed * 5 + oc * 3 + ki * 7 + kj * 2 + ic * 11) % (2 * Scale + 1)) - Scale

Conv2d_new(in_channels, out_channels, kernel_size, stride, padding, dilation, bias, seed) ==
    [in_channels |-> in_channels, out_channels |-> out_channels,
     kernel_size |-> kernel_size, stride |-> stride, padding |-> padding,
     dilation |-> dilation, seed |-> seed,
     bias |-> IF bias THEN Uniform1(seed, 5, out_channels) ELSE None]

\* the output height (or width) of the convolution on an input of height h
Conv2d_out(conv, h) ==
    ((h + 2 * conv.padding - conv.dilation * (conv.kernel_size - 1) - 1) \div conv.stride) + 1

\* the zero-padded input at row i and column j (from 1; outside the input: 0)
Padded(a, n, i, j, c) ==
    IF i \in 1..Len(a[1]) /\ j \in 1..Len(a[1][1]) THEN a[n][i][j][c] ELSE 0

\* one entry of the convolution of a: output channel oc at (n, i, j); acc[q]
\* is the sum of the first q products of the window
Conv2d_at(conv, a, n, i, j, oc) ==
    LET C == conv.in_channels
        k == conv.kernel_size
        term(q) ==
            LET ic == ((q - 1) % C) + 1
                kj == (((q - 1) \div C) % k) + 1
                ki == ((q - 1) \div (C * k)) + 1
                row == (i - 1) * conv.stride + (ki - 1) * conv.dilation - conv.padding + 1
                col == (j - 1) * conv.stride + (kj - 1) * conv.dilation - conv.padding + 1
            IN  Padded(a, n, row, col, ic) * Conv2d_weight(conv.seed, oc, ki, kj, ic)
        acc[q \in 0..(k * k * C)] == IF q = 0 THEN 0 ELSE term(q) + acc[q - 1]
    IN  (acc[k * k * C] \div Scale) + (IF conv.bias # None THEN conv.bias[oc] ELSE 0)

\* self.conv(a) on a of shape (N, H, W, C)
Conv2d_call(conv, a) ==
    T4(LAMBDA n, i, j, k : Conv2d_at(conv, a, n, i, j, k),
       <<Len(a), Conv2d_out(conv, Len(a[1])), Conv2d_out(conv, Len(a[1][1])),
         conv.out_channels>>)

\* ------------------------------------------------------------ ConvLSTMCell
\* lines 323-337
ConvLSTMCell_new(in_channels, out_channels, kernel_size, stride, padding, dilation, bias, seed) ==
    [kind |-> "ConvLSTMCell",
     raised |-> FALSE,
     conv |-> Conv2d_new(in_channels + out_channels, out_channels * 4, kernel_size,
                         stride, padding, dilation, bias, seed)]

\* (stride, padding, dilation) a caller of ConvLSTMCell may pass; the first is
\* what the cell gets when the caller passes none
ConvOptions ==
    {<<DefaultStride, DefaultPadding, DefaultDilation>>, <<1, 0, 1>>, <<1, 1, 1>>,
     <<2, 2, 1>>, <<1, 2, 2>>}

KernelSizes == (1..MaxKernel) \cup {DefaultKernelSize}

\* the (in_channels, out_channels) a caller may configure
ChannelPairs == {<<1, 1>>}

ConvLSTMCell_init ==
    /\ pc = "init"
    /\ \E ch \in ChannelPairs, kernel_size \in KernelSizes, opt \in ConvOptions,
          bias \in BOOLEAN, seed \in 0..MaxSeed :
          LET in_channels == ch[1]
              out_channels == ch[2]
              new == ConvLSTMCell_new(in_channels, out_channels, kernel_size,
                                      opt[1], opt[2], opt[3], bias, seed)
          IN  /\ ctor' = [kind |-> "ConvLSTMCell", in_channels |-> in_channels,
                          out_channels |-> out_channels, kernel_size |-> kernel_size,
                          bias |-> bias, seed |-> seed,
                          defaults |-> (opt = <<DefaultStride, DefaultPadding, DefaultDilation>>)]
              /\ IF new.raised
                    THEN pc' = "raised" /\ err' = "ValueError" /\ self' = NoSelf
                    ELSE pc' = "ready" /\ err' = "none" /\ self' = new
    /\ UNCHANGED <<args, x, hidden, cell, idx, all_hidden, all_cell, locals, result>>

\* lines 339-370: the cell on the slice x_t and the pair prev = (h_t, c_t);
\* c_t * f raises when the two shapes do not broadcast
ConvLSTMCell_call(slf, x_t, prev) ==
    LET h_t == prev[1]
        c_t == prev[2]
        xx == TConcat(x_t, h_t)
        xh == Conv2d_call(slf.conv, xx)
        xh_i == TChunk(xh, 4, 1)
        xh_f == TChunk(xh, 4, 2)
        xh_c == TChunk(xh, 4, 3)
        xh_o == TChunk(xh, 4, 4)
        f == TSigmoid(xh_f)
        c0 == TMul(c_t, f)
        i == TSigmoid(xh_i)
        c_candidate == TTanh(xh_c)
        c == TAdd(c0, TMul(i, c_candidate))
        o == TSigmoid(xh_o)
        h == TMul(o, TTanh(c))
    IN  IF Broadcastable(c_t, f)
           THEN [raised |-> FALSE, h |-> h, c |-> c]
           ELSE [raised |-> TRUE]

\* the input slice (b, h, w, c) and the input sequence (b, t, h, w, c) a
\* caller passes: entries that differ from sample to sample and step to step
XGen(n, t, i, j, c) == ((n * 5 + t * 7 + i * 2 + j * 3 + c) % (2 * Scale + 1)) - Scale
Slice(b, h, w, c) == T4(LAMBDA n, i, j, k : XGen(n, 1, i, j, k), <<b, h, w, c>>)
Sequence(b, t, h, w, c) ==
    Arr([n \in 1..b |-> Arr([tt \in 1..t |-> Arr([i \in 1..h |-> Arr([j \in 1..w |->
        Arr([k \in 1..c |-> XGen(n, tt, i, j, k)])])])])])

\* a caller uses a directly constructed cell on one slice and zero states
ConvLSTMCell_use ==
    /\ pc = "ready" /\ self.kind = "ConvLSTMCell"
    /\ \E hw \in 1..MaxSpatial :
          LET o == self.conv.out_channels \div 4
              x_t == Slice(1, hw, hw, self.conv.in_channels - o)
              prev == <<TZeros(1, hw, hw, o), TZeros(1, hw, hw, o)>>
              out == ConvLSTMCell_call(self, x_t, prev)
          IN  /\ Conv2d_out(self.conv, hw) >= 1
              /\ args' = [x |-> x_t, hidden |-> prev[1], cell |-> prev[2]]
              /\ IF out.raised
                    THEN pc' = "call_raised" /\ err' = "ValueError" /\ result' = None
                    ELSE pc' = "returned" /\ err' = err /\ result' = <<out.h, out.c>>
    /\ UNCHANGED <<ctor, self, x, hidden, cell, idx, all_hidden, all_cell, locals>>

\* ---------------------------------------------------------------- ConvLSTM
\* lines 407-422; the inner cell is built with stride 1, padding
\* kernel_size // 2, dilation 1 and the wrapper's bias
ConvLSTM_new(in_channels, out_channels, kernel_size, bias, seed) ==
    IF kernel_size % 2 # 1
    THEN [kind |-> "ConvLSTM", raised |-> TRUE]
    ELSE [kind |-> "ConvLSTM",
          raised |-> FALSE,
          in_channels |-> in_channels,
          out_channels |-> out_channels,
          kernel_size |-> kernel_size,
          cell |-> ConvLSTMCell_new(in_channels, out_channels, kernel_size,
                                    1, kernel_size \div 2, 1, bias, seed)]

ConvLSTM_init ==
    /\ pc = "init"
    /\ \E ch \in ChannelPairs, kernel_size \in 1..MaxKernel,
          bias \in BOOLEAN, seed \in 0..MaxSeed :
          LET in_channels == ch[1]
              out_channels == ch[2]
              new == ConvLSTM_new(in_channels, out_channels, kernel_size, bias, seed)
          IN  /\ ctor' = [kind |-> "ConvLSTM", in_channels |-> in_channels,
                          out_channels |-> out_channels, kernel_size |-> kernel_size,
                          bias |-> bias, seed |-> seed, defaults |-> TRUE]
              /\ IF new.raised
                    THEN pc' = "raised" /\ err' = "AssertionError" /\ self' = NoSelf
                    ELSE pc' = "ready" /\ err' = "none" /\ self' = new
    /\ UNCHANGED <<args, x, hidden, cell, idx, all_hidden, all_cell, locals, result>>

\* ConvLSTM_enter that adopts the channel count of a mismatched input before
\* it raises
ConvLSTM_enter_Adopts(slf, xin) ==
    LET c == Len(xin[1][1][1][1])
    IN  IF c # slf.in_channels
        THEN [raised |-> TRUE, self |-> [slf EXCEPT !.in_channels = c]]
        ELSE [raised |-> FALSE, self |-> slf,
              h_t |-> TZeros(Len(xin), Len(xin[1][1]), Len(xin[1][1][1]), slf.out_channels),
              c_t |-> TZeros(Len(xin), Len(xin[1][1]), Len(xin[1][1][1]), slf.out_channels),
              hidden_states |-> Arr([tt \in 1..Len(xin[1]) |->
                  TZeros(Len(xin), Len(xin[1][1]), Len(xin[1][1][1]), slf.out_channels)])]

\* lines 426-434: the shape check and the zero states; the instance as the
\* call leaves it
ConvLSTM_enter(slf, xin) ==
    LET b == Len(xin)
        t == Len(xin[1])
        h == Len(xin[1][1])
        w == Len(xin[1][1][1])
        c == Len(xin[1][1][1][1])
    IN  IF c # slf.in_channels
        THEN [raised |-> TRUE, self |-> slf]
        ELSE [raised |-> FALSE, self |-> slf,
              h_t |-> TZeros(b, h, w, slf.out_channels),
              c_t |-> TZeros(b, h, w, slf.out_channels),
              hidden_states |-> Arr([tt \in 1..t |-> TZeros(b, h, w, slf.out_channels)])]

\* lines 441-442: hidden_states (t, b, h, w, o) reshaped to (b, t, h, w, o):
\* entry (n, tt) is entry number (n - 1) * t + (tt - 1) of the t * b arrays in
\* row-major order
Reshape(hidden_states, b, t) ==
    Arr([n \in 1..b |-> Arr([tt \in 1..t |->
        hidden_states[(((n - 1) * t + (tt - 1)) \div b) + 1][(((n - 1) * t + (tt - 1)) % b) + 1]])])

ConvLSTM_call ==
    /\ Idle /\ self.kind = "ConvLSTM"
    /\ \E b \in 1..MaxBatch, t \in 1..MaxLen, hw \in 1..MaxSpatial,
          c \in {self.in_channels, self.in_channels + 1} :
          LET xin == Sequence(b, t, hw, hw, c)
              e == ConvLSTM_enter(self, xin)
          IN  /\ args' = [x |-> xin, hidden |-> None, cell |-> None]
              /\ x' = xin
              /\ self' = e.self
              /\ IF e.raised
                    THEN /\ pc' = "call_raised"
                         /\ err' = "AssertionError"
                         /\ hidden' = None /\ cell' = None /\ all_hidden' = <<>>
                    ELSE /\ pc' = "ConvLSTM_loop"
                         /\ err' = err
                         /\ hidden' = e.h_t /\ cell' = e.c_t
                         /\ all_hidden' = e.hidden_states
    /\ idx' = 0
    /\ result' = None
    /\ locals' = NoLocals
    /\ UNCHANGED <<ctor, all_cell>>

\* lines 437-439: one iteration of the loop
ConvLSTM_step ==
    /\ pc = "ConvLSTM_loop" /\ idx < Len(x[1])
    /\ LET out == ConvLSTMCell_call(self.cell, Arr([n \in 1..Len(x) |-> x[n][idx + 1]]),
                                    <<hidden, cell>>)
       IN  IF out.raised
              THEN /\ pc' = "call_raised" /\ err' = "ValueError"
                   /\ UNCHANGED <<hidden, cell, all_hidden, idx>>
              ELSE /\ hidden' = out.h
                   /\ cell' = out.c
                   /\ all_hidden' = [all_hidden EXCEPT ![idx + 1] = out.h]
                   /\ idx' = idx + 1
                   /\ UNCHANGED <<pc, err>>
    /\ UNCHANGED <<ctor, self, args, x, all_cell, locals, result>>

\* line 442 and the end of the function: hidden_states is rebound to the
\* reshaped array and the function ends without a return statement, so the
\* call returns None
ConvLSTM_return ==
    /\ pc = "ConvLSTM_loop" /\ idx = Len(x[1])
    /\ all_hidden' = Reshape(all_hidden, Len(x), Len(x[1]))
    /\ result' = None
    /\ pc' = "returned"
    /\ UNCHANGED <<ctor, self, args, x, hidden, cell, idx, all_cell, locals, err>>

Next ==
    \/ RNN_init
    \/ RNN_call
    \/ RNN_step
    \/ RNN_return
    \/ GRU_init
    \/ GRU_call
    \/ GRU_step
    \/ GRU_return
    \/ LSTM_init
    \/ LSTM_call
    \/ LSTM_step
    \/ LSTM_return
    \/ ConvLSTMCell_init
    \/ ConvLSTMCell_use
    \/ ConvLSTM_init
    \/ ConvLSTM_call
    \/ ConvLSTM_step
    \/ ConvLSTM_return

Spec == Init /\ [][Next]_vars

\* ================================================================== claims

\* the input projection x'_t of step t (from 1) of the call in progress
\* (self.Wx is named Wxh in RNN; its bias is named b in GRU)
Proj(W, b, t) ==
    IF b # None THEN VAdd(b, MatVec(args.x[t], W)) ELSE MatVec(args.x[t], W)

\* the hidden state before step t: the initial one, or the one step t - 1 made
PrevHidden(t) == IF t = 1 THEN args.hidden ELSE all_hidden[t - 1]
PrevCell(t) == IF t = 1 THEN args.cell ELSE all_cell[t - 1]

\* ---- C1: GRU, at every step where a previous hidden state h_prev exists, the
\* hidden state appended to the output is (1 - z) * n + z * h_prev, z and n
\* being the update gate and the candidate of that step.
C1_GRUUpdate ==
    (self.kind = "GRU" /\ pc \in {"GRU_loop", "returned"} /\ locals.step = 1
        /\ locals.h_prev # None)
    => all_hidden[idx] = VAdd(VMul(VRSub(One, locals.z), locals.n),
                              VMul(locals.z, locals.h_prev))

\* ---- C2: RNN, GRU and LSTM, with or without bias: the first-step output
\* with an explicit all-zero initial state (hidden, and cell for LSTM) equals
\* the first-step output with the initial state omitted.
C2_ZeroStateSameAsOmitted ==
    /\ (self.kind = "RNN" /\ pc \in {"RNN_loop", "returned"} /\ idx >= 1
           /\ args.hidden = VZeros(self.hidden_size))
       => all_hidden[1] = RNN_body(self, x[1], None)
    /\ (self.kind = "GRU" /\ pc \in {"GRU_loop", "returned"} /\ idx >= 1
           /\ args.hidden = VZeros(self.hidden_size))
       => all_hidden[1] = GRU_body(self, x[1], None).hidden
    /\ (self.kind = "LSTM" /\ pc \in {"LSTM_loop", "returned"} /\ idx >= 1
           /\ args.hidden = VZeros(self.hidden_size)
           /\ args.cell = VZeros(self.hidden_size))
       => /\ all_hidden[1] = LSTM_body(self, x[1], None, None).hidden
          /\ all_cell[1] = LSTM_body(self, x[1], None, None).cell

RECURSIVE ConvLSTM_steps(_, _, _)
\* the running pair (h, c) and the hidden states hs of steps 1..k, the cell
\* being invoked in order from all-zero states
ConvLSTM_steps(slf, xin, k) ==
    IF k = 0
    THEN [h |-> TZeros(Len(xin), Len(xin[1][1]), Len(xin[1][1][1]), slf.out_channels),
          c |-> TZeros(Len(xin), Len(xin[1][1]), Len(xin[1][1][1]), slf.out_channels),
          hs |-> <<>>]
    ELSE LET p == ConvLSTM_steps(slf, xin, k - 1)
             out == ConvLSTMCell_call(slf.cell, Arr([n \in 1..Len(xin) |-> xin[n][k]]),
                                      <<p.h, p.c>>)
         IN  [h |-> out.h, c |-> out.c, hs |-> Append(p.hs, out.h)]

LSTM_pre(t) ==
    IF PrevHidden(t) # None
    THEN VAdd(Proj(self.Wx, self.bias, t), MatVec(PrevHidden(t), self.Wh))
    ELSE Proj(self.Wx, self.bias, t)
Gates(t) ==
    LET pre == Arr(LSTM_pre(t))
        H == self.hidden_size
    IN  [i |-> Arr(VSigmoid(SubSeq(pre, 1, H))),
         f |-> Arr(VSigmoid(SubSeq(pre, H + 1, 2 * H))),
         g |-> Arr(VTanh(SubSeq(pre, 2 * H + 1, 3 * H))),
         o |-> Arr(VSigmoid(SubSeq(pre, 3 * H + 1, 4 * H)))]

\* ---- C4: LSTM, at every step t the cell state is f_t * c_prev + i_t * g_t
\* when a previous cell state exists and i_t * g_t otherwise, and the hidden
\* state is o_t * tanh(c_t); with no initial cell state the step-0 cell state
\* is i_0 * g_0 whatever the value of the forget gate.
C4_LSTMCellUpdate ==
    (self.kind = "LSTM" /\ pc \in {"LSTM_loop", "returned"})
    => /\ Len(all_cell) = idx /\ Len(all_hidden) = idx
       /\ \A t \in 1..idx :
             LET G == Gates(t)
             IN  /\ all_cell[t] =
                       IF PrevCell(t) # None
                       THEN VAdd(VMul(G.f, PrevCell(t)), VMul(G.i, G.g))
                       ELSE VMul(G.i, G.g)
                 /\ all_hidden[t] = VMul(G.o, VTanh(all_cell[t]))
       /\ (idx >= 1 /\ args.cell = None)
          => LET G == Gates(1)
             IN  \A f0 \in [1..self.hidden_size -> 0..Scale] :
                    LSTM_cell(G.i, f0, G.g, None) = all_cell[1]
       /\ pc = "returned" => result = <<all_hidden, all_cell>>

\* a two-step LSTM call without initial cell state has returned: step 0 took
\* the branch without c_prev (with a forget gate that is not 0), step 1 the
\* branch with it
C4_Witness ==
    /\ self.kind = "LSTM" /\ pc = "returned" /\ args.cell = None
    /\ Len(result[2]) = 2
    /\ \E k \in 1..self.hidden_size : result[2][1][k] # 0 /\ Gates(1).f[k] # 0
    /\ result[2][2] # result[2][1]

\* ---- C5: GRU on a sequence of length 1 with no initial hidden state: the
\* single hidden state returned is (1 - z) * tanh(x_n), z being the update
\* gate computed from the input projection alone and x_n its candidate slice.
C5_GRUFirstStep ==
    (self.kind = "GRU" /\ pc = "returned" /\ Len(args.x) = 1 /\ args.hidden = None)
    => LET H == self.hidden_size
           xp == Proj(self.Wx, self.b, 1)
           z == VSigmoid(SubSeq(xp, H + 1, 2 * H))
           x_n == SubSeq(xp, 2 * H + 1, 3 * H)
       IN  result = <<VMul(VRSub(One, z), VTanh(x_n))>>

\* ---- C6: RNN on a sequence of length L: the steps run for t = 0..L-1 in
\* order, h_t = nonlinearity(x'_t + h_(t-1) Whh) when a previous hidden state
\* exists (the initial one for t = 0) and h_t = nonlinearity(x'_t) when none
\* does; the output has exactly L entries and entry t is h_t.
C6_RNNRecurrence ==
    (self.kind = "RNN" /\ pc \in {"RNN_loop", "returned"})
    => /\ Len(all_hidden) = idx /\ idx <= Len(args.x)
       /\ \A t \in 1..idx :
             all_hidden[t] =
                Apply(self.nonlinearity,
                      IF PrevHidden(t) # None
                      THEN VAdd(Proj(self.Wxh, self.bias, t), MatVec(PrevHidden(t), self.Whh))
                      ELSE Proj(self.Wxh, self.bias, t))
       /\ pc = "returned"
          => /\ Len(result) = Len(args.x)
             /\ \A t \in 1..Len(args.x) : result[t] = all_hidden[t]

\* a two-step RNN call without initial hidden state has returned: step 0 had
\* no previous state, step 1 had one, and it changed the output
C6_Witness ==
    /\ self.kind = "RNN" /\ pc = "returned" /\ args.hidden = None
    /\ Len(result) = 2
    /\ result[2] # Apply(self.nonlinearity, Proj(self.Wxh, self.bias, 2))

\* ---- C7: constructing an RNN with a supplied nonlinearity that is not
\* callable fails with a configuration error; no such value is silently
\* replaced by the default tanh.
C7_NonCallableRejected ==
    (ctor.kind = "RNN" /\ ctor.nonlinearity # "None" /\ ~Callable(ctor.nonlinearity))
    => (pc = "raised" /\ err = "ValueError")

\* ---- C8: constructing a ConvLSTMCell with an even kernel_size fails with a
\* configuration error, directly or through the ConvLSTM wrapper.
C8_EvenKernelRejected ==
    (ctor.kind \in {"ConvLSTMCell", "ConvLSTM"} /\ ctor.kernel_size % 2 = 0)
    => pc = "raised"

\* the configuration the instance was constructed with
Constructed ==
    ConvLSTM_new(ctor.in_channels, ctor.out_channels, ctor.kernel_size, ctor.bias, ctor.seed)

\* a whole forward call on the instance slf: the final hidden_states and the
\* value returned
ConvLSTM_run(slf, xin) ==
    [hidden_states |-> Reshape(ConvLSTM_steps(slf, xin, Len(xin[1])).hs,
                               Len(xin), Len(xin[1])),
     result |-> None]

\* the channel dimension of the input of the ConvLSTM call in progress
Channels == Len(args.x[1][1][1][1])

CellOf == IF self.kind = "ConvLSTM" THEN self.cell ELSE self

\* ---- C10: ConvLSTMCell, for every odd kernel_size the convolution has
\* stride 1, dilation 1 and padding kernel_size // 2, so the hidden and cell
\* states returned have the height and width of the input slice.  (Stated of
\* the cells built from in_channels, out_channels, kernel_size and bias alone,
\* directly or by the wrapper.)
C10_SamePadding ==
    (self.kind \in {"ConvLSTMCell", "ConvLSTM"} /\ ctor.kernel_size % 2 = 1
        /\ ctor.defaults)
    => /\ CellOf.conv.stride = 1
       /\ CellOf.conv.dilation = 1
       /\ CellOf.conv.padding = ctor.kernel_size \div 2
       /\ (self.kind = "ConvLSTMCell" /\ pc = "returned")
          => \A q \in 1..2 :
                /\ Len(result[q][1]) = Len(args.x[1])
                /\ Len(result[q][1][1]) = Len(args.x[1][1])

====
